---------------------------- MODULE Spec2Model ----------------------------
(***************************************************************************)
(* Model of docs/conf.py, the Sphinx build configuration of Totem.         *)
(*                                                                         *)
(* The file is a straight-line Python module: thirteen assignments of      *)
(* literals, three import statements and one item assignment into the      *)
(* process-wide dictionary sphinx.highlighting.lexers.  The model executes *)
(* it one statement at a time in the order of the file.  An import of a    *)
(* module that is not installed raises ImportError; the file holds no      *)
(* try/except, so the exception leaves the module and the load is over.    *)
(*                                                                         *)
(* The host that loads the file (the documentation generator) is not part  *)
(* of the repository.  It is modelled from section 2 and 5 of the          *)
(* specification: it loads the configuration, and only after a successful  *)
(* load runs its stages parsing, cross-reference resolution and rendering. *)
(***************************************************************************)
EXTENDS Naturals, Sequences, FiniteSets

VARIABLES
    status,     \* "unloaded" | "loading" | "loaded" | "failed": the load step
    ip,         \* index in Program of the statement to execute next
    ns,         \* the module's namespace: name -> value or Unbound
    registry,   \* sphinx.highlighting.lexers: a dict, language tag -> lexer
    nextId,     \* identity of the next object the process allocates
    avail,      \* which of the two external modules can be imported
    err,        \* the exception the last load raised, "none" if none
    loads,      \* loads started in this process
    okLoads,    \* loads completed without an exception
    stage,      \* the host's pipeline position
    regBefore,  \* history: registry when the current load started
    regFirst,   \* history: registry when the first load completed
    writes,     \* history: registry writes performed by the module
    readLog     \* history: registry lookups made by the host's stages

vars == <<status, ip, ns, registry, nextId, avail, err, loads, okLoads,
          stage, regBefore, regFirst, writes, readLog>>

\* How many times the host process may load the module.
MaxLoads == 2

-----------------------------------------------------------------------------
(* Python values.  Every value carries its type as the field name, so that  *)
(* a list never equals a string and an unbound name equals no value.        *)

Unbound == [unbound |-> TRUE]

\* A string.  The u prefix of some literals is not modelled: a unicode and a
\* byte string of the same ASCII text compare equal.
PyStr(s) == [str |-> s]

PyList(l) == [list |-> l]

PyModule(m) == [module |-> m]

\* A name bound by "from M import x": a reference to the object M.x.
PyRef(m, x) == [from |-> m, name |-> x]

\* A pygments lexer instance: its class, its startinline option, its identity.
Lexer(c, inline, id) == [cls |-> c, startinline |-> inline, id |-> id]

-----------------------------------------------------------------------------
(* The literals of the file, under the names the file binds them to.        *)

extensions == <<>>

templates_path == <<".templates">>

source_suffix == ".rst"

\* Variant: the root document under the generator's older default name.
master_doc_contents == "contents"

master_doc == "index"

project == "Totem"

copyright == "2013, Baptiste \"Talus\" Clavié"

version == "1.4"

\* Variant: the release carrying the short version.
release_short == "1.4"

release == "1.4.0"

language == "en"

highlight_language == "php"

\* Variant: the build directory under the generator's default name.
exclude_patterns_default == <<"_build">>

exclude_patterns == <<".build">>

latex_documents ==
    << <<"index", "Totem.tex", "Totem Documentation",
         "Baptiste \"Talus\" Clavié", "manual">> >>

texinfo_documents ==
    << <<"index", "Totem", "Totem Documentation",
         "Baptiste \"Talus\" Clavié", "Totem", "Changeset Calculator.",
         "Miscellaneous">> >>

\* The key of the item assignment on the last line.
LexerKey == "php"

\* Variant: PhpLexer() built without the option, which defaults to False.
NewPhpLexerDefaultOptions(id) == Lexer("PhpLexer", FALSE, id)

\* PhpLexer(startinline=True): a new instance with identity id.
NewPhpLexer(id) == Lexer("PhpLexer", TRUE, id)

\* Variant: the registry is replaced by one holding the new item alone.
SetItemClobber(reg, value) == [k \in {LexerKey} |-> value]

\* Variant: lexers.setdefault('php', value), which keeps an existing item.
SetItemDefault(reg, value) ==
    [k \in DOMAIN reg \cup {LexerKey} |->
        IF k \in DOMAIN reg THEN reg[k] ELSE value]

\* lexers['php'] = value: a dict item assignment.  The key is added when it
\* is missing and overwritten when present; every other item is kept.
SetItem(reg, value) ==
    [k \in DOMAIN reg \cup {LexerKey} |->
        IF k = LexerKey THEN value ELSE reg[k]]

-----------------------------------------------------------------------------
(* The statements of the file in source order.                              *)

\* Variant: the imports at the top of the file, before the assignments.
ProgramImportsFirst ==
    << "import_sys_os", "import_lexers", "import_PhpLexer",
       "extensions", "templates_path", "source_suffix", "master_doc",
       "project", "copyright", "version", "release", "language",
       "highlight_language", "exclude_patterns",
       "latex_documents", "texinfo_documents",
       "register_php" >>

\* Variant: the registration line duplicated at the end of the file.
ProgramRegisterTwice ==
    << "import_sys_os",
       "extensions", "templates_path", "source_suffix", "master_doc",
       "project", "copyright", "version", "release", "language",
       "highlight_language", "exclude_patterns",
       "latex_documents", "texinfo_documents",
       "import_lexers", "import_PhpLexer",
       "register_php", "register_php" >>

Program ==
    << "import_sys_os",
       "extensions", "templates_path", "source_suffix", "master_doc",
       "project", "copyright", "version", "release", "language",
       "highlight_language", "exclude_patterns",
       "latex_documents", "texinfo_documents",
       "import_lexers", "import_PhpLexer",
       "register_php" >>

\* The names the assignments bind (the configuration keys of the host).
ConfigNames ==
    { "extensions", "templates_path", "source_suffix", "master_doc",
      "project", "copyright", "version", "release", "language",
      "highlight_language", "exclude_patterns",
      "latex_documents", "texinfo_documents" }

\* Every name the module binds.
Names == ConfigNames \cup {"sys", "os", "lexers", "PhpLexer"}

\* The statement about to be executed is s.
At(s) == status = "loading" /\ Program[ip] = s

\* Control moves to the next statement; after the last one the load is
\* complete.
Advance ==
    IF ip < Len(Program)
    THEN /\ ip' = ip + 1
         /\ status' = "loading"
         /\ okLoads' = okLoads
         /\ regFirst' = regFirst
    ELSE /\ ip' = ip
         /\ status' = "loaded"
         /\ okLoads' = okLoads + 1
         /\ regFirst' = IF okLoads = 0 THEN registry' ELSE regFirst

\* An uncaught exception: execution of the module stops at this statement.
Raise(e) ==
    /\ status' = "failed"
    /\ err' = e
    /\ UNCHANGED <<ip, okLoads, regFirst>>

\* name = value, a module-level assignment of a literal: the name is bound
\* (or bound again) in the module's namespace and nothing else changes.
Assign(name, value) ==
    /\ ns' = [ns EXCEPT ![name] = value]
    /\ Advance
    /\ UNCHANGED <<registry, nextId, avail, err, loads, stage, regBefore,
                   writes, readLog>>

\* Both external modules are installed.
AllAvailable == avail.sphinx /\ avail.pygments

-----------------------------------------------------------------------------
(* One action per statement of the file.                                    *)

\* import sys, os: standard library modules, always importable.
ImportSysOs ==
    /\ At("import_sys_os")
    /\ ns' = [ns EXCEPT !["sys"] = PyModule("sys"), !["os"] = PyModule("os")]
    /\ Advance
    /\ UNCHANGED <<registry, nextId, avail, err, loads, stage, regBefore,
                   writes, readLog>>

AssignExtensions ==
    /\ At("extensions")
    /\ Assign("extensions", PyList(extensions))

AssignTemplatesPath ==
    /\ At("templates_path")
    /\ Assign("templates_path", PyList(templates_path))

AssignSourceSuffix ==
    /\ At("source_suffix")
    /\ Assign("source_suffix", PyStr(source_suffix))

AssignMasterDoc ==
    /\ At("master_doc")
    /\ Assign("master_doc", PyStr(master_doc))

AssignProject ==
    /\ At("project")
    /\ Assign("project", PyStr(project))

AssignCopyright ==
    /\ At("copyright")
    /\ Assign("copyright", PyStr(copyright))

AssignVersion ==
    /\ At("version")
    /\ Assign("version", PyStr(version))

AssignRelease ==
    /\ At("release")
    /\ Assign("release", PyStr(release))

AssignLanguage ==
    /\ At("language")
    /\ Assign("language", PyStr(language))

AssignHighlightLanguage ==
    /\ At("highlight_language")
    /\ Assign("highlight_language", PyStr(highlight_language))

AssignExcludePatterns ==
    /\ At("exclude_patterns")
    /\ Assign("exclude_patterns", PyList(exclude_patterns))

AssignLatexDocuments ==
    /\ At("latex_documents")
    /\ Assign("latex_documents", PyList(latex_documents))

AssignTexinfoDocuments ==
    /\ At("texinfo_documents")
    /\ Assign("texinfo_documents", PyList(texinfo_documents))

\* from sphinx.highlighting import lexers
ImportLexers ==
    /\ At("import_lexers")
    /\ IF avail.sphinx
       THEN /\ ns' = [ns EXCEPT !["lexers"] =
                         PyRef("sphinx.highlighting", "lexers")]
            /\ Advance
            /\ err' = err
       ELSE /\ Raise("ImportError")
            /\ ns' = ns
    /\ UNCHANGED <<registry, nextId, avail, loads, stage, regBefore,
                   writes, readLog>>

\* Variant: the import wrapped in try/except ImportError, falling back to
\* another lexer class.
ImportPhpLexerFallback ==
    /\ At("import_PhpLexer")
    /\ ns' = [ns EXCEPT !["PhpLexer"] =
                 IF avail.pygments
                 THEN PyRef("pygments.lexers.web", "PhpLexer")
                 ELSE PyRef("fallback", "TextLexer")]
    /\ Advance
    /\ UNCHANGED <<registry, nextId, avail, err, loads, stage, regBefore,
                   writes, readLog>>

\* from pygments.lexers.web import PhpLexer
ImportPhpLexer ==
    /\ At("import_PhpLexer")
    /\ IF avail.pygments
       THEN /\ ns' = [ns EXCEPT !["PhpLexer"] =
                         PyRef("pygments.lexers.web", "PhpLexer")]
            /\ Advance
            /\ err' = err
       ELSE /\ Raise("ImportError")
            /\ ns' = ns
    /\ UNCHANGED <<registry, nextId, avail, loads, stage, regBefore,
                   writes, readLog>>

\* Variant: a registry that rejects a tag it already holds.
RegisterPhpUnique ==
    /\ At("register_php")
    /\ IF LexerKey \notin DOMAIN registry
       THEN /\ registry' = SetItem(registry, NewPhpLexer(nextId))
            /\ nextId' = nextId + 1
            /\ writes' = writes + 1
            /\ Advance
            /\ err' = err
       ELSE /\ Raise("KeyError")
            /\ UNCHANGED <<registry, nextId, writes>>
    /\ UNCHANGED <<ns, avail, loads, stage, regBefore, readLog>>

\* lexers['php'] = PhpLexer(startinline=True)
\* Both names are looked up in the namespace; an unbound one is a NameError.
RegisterPhp ==
    /\ At("register_php")
    /\ IF ns["lexers"] # Unbound /\ ns["PhpLexer"] # Unbound
       THEN /\ registry' = SetItem(registry, NewPhpLexer(nextId))
            /\ nextId' = nextId + 1
            /\ writes' = writes + 1
            /\ Advance
            /\ err' = err
       ELSE /\ Raise("NameError")
            /\ UNCHANGED <<registry, nextId, writes>>
    /\ UNCHANGED <<ns, avail, loads, stage, regBefore, readLog>>

\* Any statement of the file.
Statement ==
    \/ ImportSysOs
    \/ AssignExtensions
    \/ AssignTemplatesPath
    \/ AssignSourceSuffix
    \/ AssignMasterDoc
    \/ AssignProject
    \/ AssignCopyright
    \/ AssignVersion
    \/ AssignRelease
    \/ AssignLanguage
    \/ AssignHighlightLanguage
    \/ AssignExcludePatterns
    \/ AssignLatexDocuments
    \/ AssignTexinfoDocuments
    \/ ImportLexers
    \/ ImportPhpLexer
    \/ RegisterPhp

-----------------------------------------------------------------------------
(* The host process.                                                        *)

\* Execution of the module starts at its first statement.  The namespace of
\* an earlier load is kept, as when a module is reloaded.
BeginLoad ==
    /\ status' = "loading"
    /\ ip' = 1
    /\ err' = "none"
    /\ loads' = loads + 1
    /\ regBefore' = registry
    /\ UNCHANGED <<ns, registry, nextId, avail, okLoads, stage, regFirst,
                   writes, readLog>>

\* The host loads its configuration.
StartLoad ==
    /\ status = "unloaded"
    /\ BeginLoad

\* The same process loads the module again.
Reload ==
    /\ status \in {"loaded", "failed"}
    /\ loads < MaxLoads
    /\ BeginLoad

\* A stage of the pipeline runs; each needs a loaded configuration.
StageStep(from, to) ==
    /\ status = "loaded"
    /\ stage = from
    /\ stage' = to

\* Parsing of the source documents.
Parse ==
    /\ StageStep("config", "parsed")
    /\ UNCHANGED <<status, ip, ns, registry, nextId, avail, err, loads,
                   okLoads, regBefore, regFirst, writes, readLog>>

\* Cross-reference resolution.
Resolve ==
    /\ StageStep("parsed", "resolved")
    /\ UNCHANGED <<status, ip, ns, registry, nextId, avail, err, loads,
                   okLoads, regBefore, regFirst, writes, readLog>>

\* Output rendering: a code block with no language of its own is highlighted
\* with the lexer registered for highlight_language.
Render ==
    /\ StageStep("resolved", "rendered")
    /\ LET tag == ns["highlight_language"].str
       IN  readLog' = readLog \cup
               {[ tag    |-> tag,
                  writes |-> writes,
                  found  |-> tag \in DOMAIN registry,
                  inline |-> tag \in DOMAIN registry
                                /\ registry[tag].startinline ]}
    /\ UNCHANGED <<status, ip, ns, registry, nextId, avail, err, loads,
                   okLoads, regBefore, regFirst, writes>>

-----------------------------------------------------------------------------
(* Specifications.                                                          *)

\* The registries the process may hold before the module is loaded: any of
\* the host's own entries, and possibly an entry "php" made by someone else.
NoneLexer == Lexer("TextLexer", FALSE, 1)

PythonLexer == Lexer("PythonLexer", FALSE, 2)

InitialRegistries ==
    { [k \in S |-> IF k = "none" THEN NoneLexer ELSE PythonLexer] :
          S \in SUBSET {"none", "python"} }
    \cup
    { [k \in S \cup {LexerKey} |->
          IF k = "none" THEN NoneLexer
          ELSE IF k = "python" THEN PythonLexer
          ELSE Lexer("PhpLexer", inline, 3)] :
          S \in SUBSET {"none", "python"}, inline \in BOOLEAN }

Init ==
    /\ status = "unloaded"
    /\ ip = 1
    /\ ns = [n \in Names |-> Unbound]
    /\ registry \in InitialRegistries
    /\ nextId = 4
    /\ avail \in [sphinx : BOOLEAN, pygments : BOOLEAN]
    /\ err = "none"
    /\ loads = 0
    /\ okLoads = 0
    /\ stage = "config"
    /\ regBefore = registry
    /\ regFirst = registry
    /\ writes = 0
    /\ readLog = {}

\* A process that may load the module more than once.
Next ==
    \/ StartLoad
    \/ Reload
    \/ Statement
    \/ Parse
    \/ Resolve
    \/ Render

Spec == Init /\ [][Next]_vars

\* One build: the host loads its configuration once, then runs its stages.
\* The process is single-threaded and nothing in it blocks: as long as a step
\* is possible, the interpreter takes one (weak fairness of the whole step).
BuildNext ==
    \/ StartLoad
    \/ Statement
    \/ Parse
    \/ Resolve
    \/ Render

BuildSpec == Init /\ [][BuildNext]_vars /\ WF_vars(BuildNext)

-----------------------------------------------------------------------------
(* Properties.                                                              *)

\* The first element of every tuple of the list bound to name.
FirstElements(name) ==
    { ns[name].list[i][1] : i \in 1..Len(ns[name].list) }

\* Two lexers are the same up to identity: same class, same options.
SameLexer(a, b) == a.cls = b.cls /\ a.startinline = b.startinline

\* C1: when the registry held no "php" key at the start of a load, the
\* completed load has added exactly one key, "php", and the lexer stored
\* under it is a PhpLexer with startinline enabled.
C1_OneNewKeyStartInline ==
    (status = "loaded" /\ "php" \notin DOMAIN regBefore) =>
        /\ DOMAIN registry \ DOMAIN regBefore = {"php"}
        /\ registry["php"].cls = "PhpLexer"
        /\ registry["php"].startinline = TRUE

C1_Witness ==
    /\ status = "loaded"
    /\ "php" \notin DOMAIN regBefore
    /\ DOMAIN regBefore # {}
    /\ "php" \in DOMAIN registry

\* C2: after a load has succeeded, no later load raises, and when a second
\* (or later) load completes the registry has the keys it had after the
\* first, the same items under every other key, and under "php" a lexer
\* equivalent to the first one: a PhpLexer with startinline enabled.
C2_SecondLoadIdempotent ==
    /\ okLoads >= 1 => status # "failed" /\ err = "none"
    /\ (okLoads >= 2 /\ status = "loaded") =>
          /\ DOMAIN registry = DOMAIN regFirst
          /\ \A k \in DOMAIN regFirst \ {"php"} : registry[k] = regFirst[k]
          /\ SameLexer(registry["php"], regFirst["php"])
          /\ registry["php"].cls = "PhpLexer"
          /\ registry["php"].startinline = TRUE

C2_Witness ==
    /\ okLoads = 2
    /\ status = "loaded"
    /\ registry["php"].id # regFirst["php"].id
    /\ Cardinality(DOMAIN registry) > 1

\* C3: after a successful load master_doc is "index", and the first element
\* of every entry of latex_documents and of texinfo_documents equals it.
C3_DocumentsStartAtMasterDoc ==
    okLoads >= 1 =>
        /\ ns["master_doc"] = PyStr("index")
        /\ \A d \in FirstElements("latex_documents") :
               d = ns["master_doc"].str
        /\ \A d \in FirstElements("texinfo_documents") :
               d = ns["master_doc"].str

C3_Witness ==
    /\ status = "loaded"
    /\ FirstElements("latex_documents") # {}
    /\ FirstElements("texinfo_documents") # {}

\* What C4 asks of every state of one build.
C4_Safety ==
    /\ ~AllAvailable =>
          /\ status # "loaded"
          /\ status = "loading" => Program[ip] # "register_php"
          /\ stage = "config"
          /\ writes = 0
          /\ readLog = {}
    /\ status = "failed" =>
          /\ err = "ImportError"
          /\ \/ Program[ip] = "import_lexers" /\ ~avail.sphinx
             \/ Program[ip] = "import_PhpLexer" /\ ~avail.pygments
          /\ loads = 1
          /\ registry = regBefore
          /\ ns["PhpLexer"] = Unbound

\* C4: in one build, when one of the two external modules cannot be
\* imported the load never completes and never reaches the registration,
\* the registry is never written, no stage runs and no lookup is made; a
\* failed load failed with ImportError at one of the two imports, was the
\* only load, left the registry as it was and bound no substitute lexer;
\* the load does fail, and once it has failed nothing happens any more.
C4_ImportFailureTerminal ==
    /\ []C4_Safety
    /\ [][status = "failed" => UNCHANGED vars]_vars
    /\ ~AllAvailable ~> status = "failed"

C4_Witness ==
    /\ status = "failed"
    /\ err = "ImportError"
    /\ avail.sphinx
    /\ ~avail.pygments
    /\ stage = "config"

\* C5: no step changes or removes a registry item under a key other than
\* "php" or adds a key other than "php", and once a load has completed no
\* step changes the value of a configuration name.
C5_OnlyPhpEntryChanges ==
    [][ /\ \A k \in DOMAIN registry \ {"php"} :
              k \in DOMAIN registry' /\ registry'[k] = registry[k]
        /\ "php" \in DOMAIN registry => "php" \in DOMAIN registry'
        /\ DOMAIN registry' \subseteq DOMAIN registry \cup {"php"}
        /\ okLoads >= 1 => \A n \in ConfigNames : ns'[n] = ns[n] ]_vars

C5_Witness ==
    /\ status = "loaded"
    /\ loads = 2
    /\ Cardinality(DOMAIN regBefore \ {"php"}) = 2
    /\ registry # regBefore

\* C6: after a successful load project is "Totem", version is "1.4",
\* release is "1.4.0" and highlight_language is "php".
C6_ProjectMetadata ==
    okLoads >= 1 =>
        /\ ns["project"] = PyStr("Totem")
        /\ ns["version"] = PyStr("1.4")
        /\ ns["release"] = PyStr("1.4.0")
        /\ ns["highlight_language"] = PyStr("php")

C6_Witness ==
    /\ status = "loaded"
    /\ okLoads = 1
    /\ ns["release"] # Unbound

\* C7: after a successful load source_suffix is the string ".rst",
\* templates_path is the one-entry list [".templates"] and exclude_patterns
\* is the one-entry list [".build"].
C7_PathsAndSuffix ==
    okLoads >= 1 =>
        /\ ns["source_suffix"] = PyStr(".rst")
        /\ ns["templates_path"] = PyList(<<".templates">>)
        /\ Len(ns["templates_path"].list) = 1
        /\ ns["exclude_patterns"] = PyList(<<".build">>)
        /\ Len(ns["exclude_patterns"].list) = 1

C7_Witness ==
    /\ status = "loaded"
    /\ okLoads = 1
    /\ ns["exclude_patterns"] # Unbound

\* C8: in every state from the completion of a load on, every configuration
\* name is bound and the registry holds under "php" a lexer with startinline
\* enabled; every lookup a stage made found that lexer.
C8_BoundAndRegisteredFromLoadOn ==
    okLoads >= 1 =>
        /\ \A n \in ConfigNames : ns[n] # Unbound
        /\ "php" \in DOMAIN registry
        /\ registry["php"].startinline = TRUE
        /\ \A r \in readLog : r.tag = "php" /\ r.found /\ r.inline

C8_Witness ==
    /\ stage = "rendered"
    /\ readLog # {}
    /\ status = "loading"
    /\ "php" \in DOMAIN registry

\* C9: in one build the module writes the registry at most once; the write
\* is the last step of the load, so the registry has been written exactly
\* once when and only when the load has completed, and not at all when the
\* load has failed; no stage runs and no lookup is made before that write.
C9_WriteOnceBeforeReads ==
    /\ writes <= 1
    /\ loads <= 1
    /\ writes = 1 <=> status = "loaded"
    /\ status = "failed" => writes = 0
    /\ stage # "config" => writes = 1
    /\ \A r \in readLog : r.writes = 1

\* C9 as stated: in any run of one build, once the load step is over the
\* module has written the registry exactly once, and no stage runs and no
\* lookup is made before that write.
C9_ExactlyOnceInAnyRun ==
    /\ writes <= 1
    /\ status \in {"loaded", "failed"} => writes = 1
    /\ stage # "config" => writes = 1
    /\ \A r \in readLog : r.writes = 1

C9_Witness ==
    /\ stage = "rendered"
    /\ writes = 1
    /\ readLog # {}

\* C10: when a load has failed with ImportError the registry is the one the
\* load started with, and every configuration name from extensions to
\* texinfo_documents is bound.
C10_FailedLoadLeavesRegistry ==
    (status = "failed" /\ err = "ImportError") =>
        /\ registry = regBefore
        /\ writes = 0
        /\ \A n \in ConfigNames : ns[n] # Unbound
        /\ ns["extensions"] = PyList(<<>>)
        /\ ns["texinfo_documents"] # Unbound

C10_Witness ==
    /\ status = "failed"
    /\ err = "ImportError"
    /\ loads = 1
    /\ "php" \in DOMAIN regBefore
    /\ ns["texinfo_documents"] # Unbound

=============================================================================
